---- MODULE Spec2Model ----
(***************************************************************************)
(* Model of src/HelmholtzCoils.py: the class HelmholtzCoils, its methods   *)
(* and the two AWG tables.                                                 *)
(*                                                                         *)
(* Numbers.  Python floats are modelled by exact numbers in fixed units:   *)
(*   current   : integer multiples of 0.0025 A   (5 = 0.0125 A, 6000 = 15A)*)
(*   length    : integer multiples of 0.0005 m   (50 = 0.025 m)            *)
(*   diameter  : integer multiples of 1e-7 m     (16280 = 0.001628 m)      *)
(*   turns     : whole turns; the constructor argument is given in tenths  *)
(*               of a turn so that int() truncates something               *)
(* Computed quantities are exact rationals [num, den] in lowest terms:     *)
(*   H          coefficient of (4/5)^(3/2)        A/m                      *)
(*   B          coefficient of pi*(4/5)^(3/2)     mT  (and mG for B_mG)    *)
(*   wirelength coefficient of pi                 m                        *)
(*   resistance ohms, voltage volts                                        *)
(* A Python value that may be None is a sequence: <<>> is None, <<x>> is x.*)
(* The outcome of a call is [exc, value]: exc = "None" and the returned    *)
(* value, or the name of the exception raised and its message.             *)
(***************************************************************************)
EXTENDS Integers, Sequences, FiniteSets, TLC

VARIABLES coil, op, args, ret

vars == <<coil, op, args, ret>>

----------------------------------------------------------------------------
(* Input domains *)

MaxAwg == 41
MinAwg == 0
MaxCurrentUnits == 6400

AwgInputs == MinAwg..MaxAwg
TurnsInputs == {105, 200}
CustomTurns == {10, 20}
Currents == {200, 960, 2000, 6400}
CustomCurrents == {400, 6400}
Radii == {0, 50, 100}
Positions == {0, 25}
GaugeInputs == {10, 14, 22, 23}
CurrentGrid == 0..MaxCurrentUnits

----------------------------------------------------------------------------
(* Python values and exact arithmetic *)

None == <<>>

Ok(v) == [exc |-> "None", value |-> v]

Raise(e, msg) == [exc |-> e, value |-> msg]

Abs(x) == IF x < 0 THEN -x ELSE x

RECURSIVE GCD(_, _)
GCD(x, y) == IF y = 0 THEN x ELSE GCD(y, x % y)

Rat(n, d) ==
    LET s == IF d < 0 THEN -1 ELSE 1
        g == GCD(Abs(n), Abs(d))
    IN  [num |-> (s * n) \div g, den |-> (s * d) \div g]

RatMul(x, y) ==
    LET g1 == GCD(Abs(x.num), y.den)
        g2 == GCD(Abs(y.num), x.den)
    IN  Rat((x.num \div g1) * (y.num \div g2), (x.den \div g2) * (y.den \div g1))

int(tenths) == IF tenths >= 0 THEN tenths \div 10 ELSE -((-tenths) \div 10)

FirstRaise(outcomes) ==
    LET bad == {i \in 1..Len(outcomes) : outcomes[i].exc # "None"}
    IN  IF bad = {} THEN None
        ELSE <<outcomes[CHOOSE i \in bad : \A j \in bad : i <= j]>>

----------------------------------------------------------------------------
(* class HelmholtzCoils *)

HelmholtzCoils(turns_per_coil, current_per_coil, coil_radius) ==
    [N |-> int(turns_per_coil),
     I |-> current_per_coil,
     a |-> coil_radius,
     lhcoil_position |-> -(coil_radius \div 2),
     rhcoil_position |-> coil_radius \div 2]

H_axial(self, position) ==
    IF self.a = 0 THEN Raise("ZeroDivisionError", "float division by zero")
    ELSE Ok(Rat(5 * self.N * self.I, self.a + Abs(position)))

H(self, position) ==
    IF self.a = 0 THEN Raise("ZeroDivisionError", "float division by zero")
    ELSE Ok(Rat(5 * self.N * self.I, self.a))

centerH(self) == H(self, 0)

B(self, position) ==
    LET h == H(self, position)
    IN  IF h.exc # "None" THEN h ELSE Ok(RatMul(Rat(1, 2500), h.value))

centerB(self) == B(self, 0)

B_mG(self, position) ==
    LET b == B(self, position)
    IN  IF b.exc # "None" THEN b ELSE Ok(RatMul(b.value, Rat(10000, 1)))

wirelength(self) == Ok(Rat(self.N * self.a, 500))

wire_resistance(self, wire_diameter) ==
    LET wire_length == wirelength(self)
    IN  IF wire_diameter = None
        THEN Raise("TypeError",
                   "unsupported operand type(s) for /: 'NoneType' and 'int'")
        ELSE IF wire_diameter[1] = 0
        THEN Raise("ZeroDivisionError", "float division by zero")
        ELSE Ok(RatMul(RatMul(Rat(6720000, 1), wire_length.value),
                       Rat(1, wire_diameter[1] * wire_diameter[1])))

voltage_required(self, wire_diameter) ==
    LET resistance == wire_resistance(self, wire_diameter)
    IN  IF resistance.exc # "None" THEN resistance
        ELSE Ok(RatMul(Rat(self.I, 400), resistance.value))

gauge_current ==
    << <<10, 6000>>, <<11, 4000>>, <<14, 2000>>, <<16, 1400>>, <<17, 1000>>,
       <<18, 800>>, <<20, 600>>, <<21, 400>>, <<22, 300>>, <<24, 200>>,
       <<27, 100>>, <<30, 50>>, <<31, 40>>, <<32, 30>>, <<34, 20>>,
       <<37, 10>>, <<40, 5>> >>

RECURSIVE awg_loop_nearest(_, _, _, _)
awg_loop_nearest(self, i, delta, awg_rec) ==
    IF i > Len(gauge_current) THEN awg_rec
    ELSE LET gauge == gauge_current[i][1]
             current == gauge_current[i][2]
             epsilon == Abs(current - self.I)
         IN  IF epsilon >= 0 /\ (delta = None \/ epsilon < delta[1])
             THEN awg_loop_nearest(self, i + 1, <<epsilon>>, gauge)
             ELSE awg_loop_nearest(self, i + 1, delta, awg_rec)

RECURSIVE awg_loop_strict(_, _, _, _)
awg_loop_strict(self, i, delta, awg_rec) ==
    IF i > Len(gauge_current) THEN awg_rec
    ELSE LET gauge == gauge_current[i][1]
             current == gauge_current[i][2]
             epsilon == current - self.I
         IN  IF epsilon > 0 /\ (delta = None \/ epsilon < delta[1])
             THEN awg_loop_strict(self, i + 1, <<epsilon>>, gauge)
             ELSE awg_loop_strict(self, i + 1, delta, awg_rec)

RECURSIVE awg_loop(_, _, _, _)
awg_loop(self, i, delta, awg_rec) ==
    IF i > Len(gauge_current) THEN awg_rec
    ELSE LET gauge == gauge_current[i][1]
             current == gauge_current[i][2]
             epsilon == current - self.I
         IN  IF epsilon >= 0 /\ (delta = None \/ epsilon < delta[1])
             THEN awg_loop(self, i + 1, <<epsilon>>, gauge)
             ELSE awg_loop(self, i + 1, delta, awg_rec)

awg_recommendation_open(self) ==
    IF self.I > 5 /\ self.I < 6000
    THEN awg_loop(self, 1, None, 0)
    ELSE 0

awg_recommendation(self) ==
    IF self.I >= 5 /\ self.I <= 6000
    THEN awg_loop(self, 1, None, 0)
    ELSE 0

awg_to_diameter ==
    (10 :> 25880) @@ (11 :> 23050) @@ (12 :> 20530) @@ (13 :> 18280) @@
    (14 :> 16280) @@ (15 :> 14500) @@ (16 :> 12910) @@ (17 :> 11500) @@
    (18 :> 10240) @@ (19 :> 9116) @@ (20 :> 8128) @@ (21 :> 7229) @@
    (22 :> 6438)

awg_diameter_default(self, awg) ==
    IF awg \in DOMAIN awg_to_diameter THEN <<awg_to_diameter[awg]>> ELSE <<10240>>

awg_diameter(self, awg) ==
    IF awg \in DOMAIN awg_to_diameter THEN <<awg_to_diameter[awg]>> ELSE None

summary(self, position) ==
    LET h == H(self, position)
        b == B(self, position)
        bmg == B_mG(self, position)
        ch == centerH(self)
        cb == centerB(self)
        wl == wirelength(self)
        rec == awg_recommendation(self)
        v == voltage_required(self, awg_diameter(self, awg_recommendation(self)))
        err == FirstRaise(<<h, b, bmg, ch, cb, wl, v>>)
    IN  IF err # None THEN err[1]
        ELSE Ok([position |-> position,
                 H |-> h.value, B_mT |-> b.value, B_mG |-> bmg.value,
                 centerH |-> ch.value, centerB |-> cb.value,
                 wirelength |-> wl.value,
                 awg |-> rec,
                 voltage |-> v.value])

custom_B_field_cal_stale(self, gauge, turns, radius, current, position) ==
    LET s1 == [self EXCEPT !.N = turns, !.a = radius, !.I = current]
        wire_diameter == awg_diameter(self, gauge)
        B_field == B(self, position)
        voltage == voltage_required(self, wire_diameter)
        h == H(self, position)
        ch == centerH(self)
        cb == centerB(self)
        wl == wirelength(self)
        err == FirstRaise(<<B_field, voltage, h, ch, cb, wl>>)
    IN  IF wire_diameter = None
        THEN [self |-> s1,
              ret |-> Raise("ValueError",
                            <<"AWG", gauge, "is not in the available list.">>)]
        ELSE IF err # None THEN [self |-> s1, ret |-> err[1]]
        ELSE [self |-> s1,
              ret |-> Ok([position |-> position,
                          H |-> h.value, B_mT |-> B_field.value,
                          B_mG |-> RatMul(B_field.value, Rat(10000, 1)),
                          centerH |-> ch.value, centerB |-> cb.value,
                          wirelength |-> wl.value,
                          voltage |-> voltage.value])]

custom_B_field_cal(self, gauge, turns, radius, current, position) ==
    LET s1 == [self EXCEPT !.N = turns, !.a = radius, !.I = current]
        wire_diameter == awg_diameter(s1, gauge)
        B_field == B(s1, position)
        voltage == voltage_required(s1, wire_diameter)
        h == H(s1, position)
        ch == centerH(s1)
        cb == centerB(s1)
        wl == wirelength(s1)
        err == FirstRaise(<<B_field, voltage, h, ch, cb, wl>>)
    IN  IF wire_diameter = None
        THEN [self |-> s1,
              ret |-> Raise("ValueError",
                            <<"AWG", gauge, "is not in the available list.">>)]
        ELSE IF err # None THEN [self |-> s1, ret |-> err[1]]
        ELSE [self |-> s1,
              ret |-> Ok([position |-> position,
                          H |-> h.value, B_mT |-> B_field.value,
                          B_mG |-> RatMul(B_field.value, Rat(10000, 1)),
                          centerH |-> ch.value, centerB |-> cb.value,
                          wirelength |-> wl.value,
                          voltage |-> voltage.value])]

----------------------------------------------------------------------------
(* State machine: one object, one call at a time *)

Init ==
    \E t \in TurnsInputs, c \in Currents, r \in Radii :
        /\ coil = HelmholtzCoils(t, c, r)
        /\ op = "__init__"
        /\ args = <<t, c, r>>
        /\ ret = Ok(None)

CallH ==
    \E position \in Positions :
        /\ op' = "H" /\ args' = <<position>>
        /\ ret' = H(coil, position)
        /\ UNCHANGED coil

CallCenterH ==
    /\ op' = "centerH" /\ args' = <<>>
    /\ ret' = centerH(coil)
    /\ UNCHANGED coil

CallB ==
    \E position \in Positions :
        /\ op' = "B" /\ args' = <<position>>
        /\ ret' = B(coil, position)
        /\ UNCHANGED coil

CallCenterB ==
    /\ op' = "centerB" /\ args' = <<>>
    /\ ret' = centerB(coil)
    /\ UNCHANGED coil

CallB_mG ==
    \E position \in Positions :
        /\ op' = "B_mG" /\ args' = <<position>>
        /\ ret' = B_mG(coil, position)
        /\ UNCHANGED coil

CallWirelength ==
    /\ op' = "wirelength" /\ args' = <<>>
    /\ ret' = wirelength(coil)
    /\ UNCHANGED coil

WireDiameters == {None, <<0>>, <<16280>>, <<6438>>}

CallWireResistance ==
    \E wire_diameter \in WireDiameters :
        /\ op' = "wire_resistance" /\ args' = <<wire_diameter>>
        /\ ret' = wire_resistance(coil, wire_diameter)
        /\ UNCHANGED coil

CallVoltageRequired ==
    \E wire_diameter \in WireDiameters :
        /\ op' = "voltage_required" /\ args' = <<wire_diameter>>
        /\ ret' = voltage_required(coil, wire_diameter)
        /\ UNCHANGED coil

CallAwgRecommendation ==
    /\ op' = "awg_recommendation" /\ args' = <<>>
    /\ ret' = Ok(awg_recommendation(coil))
    /\ UNCHANGED coil

CallAwgDiameter ==
    \E awg \in AwgInputs :
        /\ op' = "awg_diameter" /\ args' = <<awg>>
        /\ ret' = Ok(awg_diameter(coil, awg))
        /\ UNCHANGED coil

CallSummary ==
    \E position \in Positions :
        /\ op' = "summary" /\ args' = <<position>>
        /\ ret' = summary(coil, position)
        /\ UNCHANGED coil

CallCustom ==
    \E gauge \in GaugeInputs, turns \in CustomTurns, radius \in Radii,
       current \in CustomCurrents, position \in Positions :
        LET r == custom_B_field_cal(coil, gauge, turns, radius, current, position)
        IN  /\ op' = "custom_B_field_cal"
            /\ args' = <<gauge, turns, radius, current, position>>
            /\ coil' = r.self
            /\ ret' = r.ret

Next ==
    \/ CallH
    \/ CallCenterH
    \/ CallB
    \/ CallCenterB
    \/ CallB_mG
    \/ CallWirelength
    \/ CallWireResistance
    \/ CallVoltageRequired
    \/ CallAwgRecommendation
    \/ CallAwgDiameter
    \/ CallSummary
    \/ CallCustom

Spec == Init /\ [][Next]_vars

(* awg_recommendation over a dense grid of stored currents *)

GaugeInit ==
    \E c \in CurrentGrid :
        /\ coil = HelmholtzCoils(200, c, 50)
        /\ op = "__init__"
        /\ args = <<200, c, 50>>
        /\ ret = Ok(None)

GaugeNext == CallAwgRecommendation

GaugeSpec == GaugeInit /\ [][GaugeNext]_vars

----------------------------------------------------------------------------
(* Properties *)

Gauges == {gauge_current[i][1] : i \in 1..Len(gauge_current)}

Rating(g) == gauge_current[CHOOSE i \in 1..Len(gauge_current) : gauge_current[i][1] = g][2]

InRange(self) == self.I >= 5 /\ self.I <= 6000

SameTriple(s, t) == s.N = t.N /\ s.a = t.a /\ s.I = t.I

(* C1: custom_B_field_cal called with a gauge that is not in awg_to_diameter *)
(* raises the invalid-gauge ValueError and leaves the stored turns, radius   *)
(* and current as they were before the call.                                 *)
C1_InvalidGaugeLeavesTriple ==
    [][(op' = "custom_B_field_cal" /\ args'[1] \notin DOMAIN awg_to_diameter)
        => (ret'.exc = "ValueError" /\ SameTriple(coil', coil))]_vars

(* C2: for a stored current in [0.0125 A, 15 A] awg_recommendation returns a *)
(* gauge of gauge_current whose rating is >= the current, no other gauge has *)
(* a rating between the current and that rating, and 2.4 A gives gauge 17.   *)
C2_TightestRating ==
    (op = "awg_recommendation" /\ InRange(coil)) =>
        /\ ret.value \in Gauges
        /\ Rating(ret.value) >= coil.I
        /\ \A g \in Gauges : ~(coil.I <= Rating(g) /\ Rating(g) < Rating(ret.value))
        /\ (coil.I = 960 => ret.value = 17)

C2_Witness == op = "awg_recommendation" /\ coil.I = 960 /\ ret.value = 17

(* C3: when awg_recommendation is 0, summary either fails with an explicit   *)
(* no-recommendation error or returns the bundle without the voltage entry;  *)
(* it never hands a None diameter to voltage_required / wire_resistance.     *)
C3_SummaryDefinedWithoutGauge ==
    (op = "summary" /\ awg_recommendation(coil) = 0 /\ coil.a # 0) =>
        /\ ret # wire_resistance(coil, None)
        /\ \/ ret.exc = "NoGaugeRecommendation"
           \/ ret.exc = "None" /\ "voltage" \notin DOMAIN ret.value

(* C4: awg_recommendation returns 0 exactly when the stored current is       *)
(* outside [0.0125 A, 15 A]; inside, endpoints included, it returns a gauge  *)
(* of gauge_current.                                                         *)
C4_ZeroIffOutOfRange ==
    op = "awg_recommendation" =>
        /\ (ret.value = 0 <=> ~InRange(coil))
        /\ (InRange(coil) => ret.value \in Gauges)

C4_Witness ==
    op = "awg_recommendation" /\ coil.I \in {5, 6000} /\ ret.value \in {10, 40}

(* C5 as stated: HelmholtzCoils(20, 5, 0.025).summary(0) reports gauge 11.   *)
C5_DemoGaugeIs11 ==
    (op = "summary" /\ args = <<0>> /\ coil.N = 20 /\ coil.I = 2000 /\ coil.a = 50)
        => (ret.exc = "None" /\ ret.value.awg = 11)

(* C5 amended: HelmholtzCoils(20, 5, 0.025).summary(0) reports gauge 14, the *)
(* gauge rated exactly 5 A, and neither gauge 11 nor gauge 10.               *)
C5_DemoGaugeIs14 ==
    (op = "summary" /\ args = <<0>> /\ coil.N = 20 /\ coil.I = 2000 /\ coil.a = 50)
        => (ret.exc = "None" /\ ret.value.awg = 14)

C5_Witness ==
    /\ op = "summary" /\ args = <<0>>
    /\ coil = HelmholtzCoils(200, 2000, 50)
    /\ ret.exc = "None" /\ ret.value.awg = 14

(* C6: only custom_B_field_cal changes the stored turns, radius and current; *)
(* after a call with a gauge in 10..22 they equal the supplied arguments and *)
(* the returned bundle is computed from the new values; every other method   *)
(* leaves them unchanged.                                                    *)
C6_OnlyCustomOverwrites ==
    [][/\ op' # "custom_B_field_cal" => SameTriple(coil', coil)
       /\ (op' = "custom_B_field_cal" /\ args'[1] \in 10..22) =>
            /\ coil'.N = args'[2] /\ coil'.a = args'[3] /\ coil'.I = args'[4]
            /\ (coil'.a # 0 => ret'.exc = "None")
            /\ ret'.exc = "None" =>
                 /\ ret'.value.H = H(coil', args'[5]).value
                 /\ ret'.value.B_mT = B(coil', args'[5]).value
                 /\ ret'.value.B_mG = B_mG(coil', args'[5]).value
                 /\ ret'.value.centerH = centerH(coil').value
                 /\ ret'.value.centerB = centerB(coil').value
                 /\ ret'.value.wirelength = wirelength(coil').value
                 /\ ret'.value.voltage =
                      voltage_required(coil', awg_diameter(coil', args'[1])).value
      ]_vars

C6_Witness ==
    /\ op = "custom_B_field_cal" /\ args = <<14, 20, 50, 400, 0>>
    /\ ret.exc = "None"
    /\ coil.I = 400 /\ coil.lhcoil_position = -50

(* C7: awg_diameter returns the table diameter for every awg in 10..22 (14   *)
(* gives 0.001628 m) and None, never a default number, for every other awg.  *)
C7_DiameterOrNone ==
    op = "awg_diameter" =>
        /\ (args[1] \in 10..22 => ret.value = <<awg_to_diameter[args[1]]>>)
        /\ (args[1] \notin 10..22 => ret.value = None)
        /\ (args[1] = 14 => ret.value = <<16280>>)

C7_Witness == op = "awg_diameter" /\ args[1] \in {0, 9, 23, 24, 40} /\ ret.value = None

C9_CoilPositionsFollowRadius ==
    /\ coil.lhcoil_position = -(coil.a \div 2)
    /\ coil.rhcoil_position = coil.a \div 2

(* C10: for every stored current in [0.0125 A, 15 A] the recommended gauge   *)
(* has an entry in awg_to_diameter, so summary completes with a voltage      *)
(* entry.                                                                    *)
C10_InRangeSummaryHasVoltage ==
    (op = "summary" /\ InRange(coil) /\ coil.a # 0) =>
        /\ awg_diameter(coil, awg_recommendation(coil)) # None
        /\ ret.exc = "None"
        /\ "voltage" \in DOMAIN ret.value

====
